---- MODULE Spec2Model ----
(***************************************************************************)
(* A model of the esy build orchestrator: the build graph and its two      *)
(* traversals, the path scheme, package-name normalization, the findlib    *)
(* configuration, the rule list of the ejecting builder and its execution  *)
(* by make, the hash helpers of the eject command, and the in-process      *)
(* builder (simple-builder.js) with its staging, command execution, path   *)
(* rewrite and finalizing rename.                                          *)
(*                                                                         *)
(* Strings are sequences of one-character strings, so that lengths,        *)
(* offsets and substring searches are those of the program.                *)
(***************************************************************************)
EXTENDS Integers, Sequences, FiniteSets, TLC

VARIABLES
    sandbox,        \* BuildSandbox: the build graph (root, dependencies, id, ...)
    config,         \* BuildConfig: storePath, sandboxPath
    \* ---- traverse / traverseDeepFirst
    tpc,            \* which traversal runs, or which has returned
    seen,           \* the Set `seen` of ids
    queue,          \* the BFS queue of Build objects
    stack,          \* the DFS call stack: frames of the inner traverse(build)
    visited,        \* the Build objects the visitor f was called on, in order
    findlib,        \* the rendered findlib configurations of one build
    \* ---- normalizePackageName
    names,          \* two package names and their normalizations
    \* ---- the rewrite task on one file buffer
    rewr,           \* a file buffer, before and after the task of step 8
    \* ---- the ejecting builder and `make build`
    ruleSet,        \* the rule list renderToMakefile has built
    graph,          \* make's view of the Makefile: target -> prerequisites
    made,           \* the targets of the rule list whose rule has completed
    \* ---- the eject hash helpers
    hashFiles,      \* the hash file of each folder: absent, or its content
    hashLog,        \* history: the helper processes run and what they printed
    \* ---- the in-process builder
    fs,             \* the file system: tree path -> directory tree
    stores,         \* store skeleton directories created by initStore
    run,            \* number of the current invocation of build()
    chain,          \* buildInProgress: the builds chained by the visitor, in order
    cur,            \* index in chain of the performBuild in progress
    pc,             \* position of build() / performBuild()
    cmdIdx,         \* the loop variable i of the command loop
    rw,             \* rewriteInProgress of each build: the chained rewrite tasks
    writes,         \* fs.writeFile calls in flight (never awaited)
    execLog,        \* history: commands executed, with their exit status
    outcome,        \* history: how performBuild ended for each build in this run
    hist            \* history: facts about the previous run and the run's start

travVars == <<tpc, seen, queue, stack, visited, findlib>>
builderVars == <<fs, stores, run, chain, cur, pc, cmdIdx, rw, writes, execLog, outcome, hist>>
makeVars == <<ruleSet, graph, made>>
hashVars == <<hashFiles, hashLog>>
vars == <<sandbox, config, travVars, names, rewr, makeVars, hashVars, builderVars>>

-----------------------------------------------------------------------------
(* Sequences                                                               *)

RECURSIVE Flatten(_)
Flatten(ss) == IF ss = <<>> THEN <<>> ELSE Head(ss) \o Flatten(Tail(ss))

RECURSIVE JoinWith(_, _)
\* Array.prototype.join / path.join on clean segments
JoinWith(parts, sep) ==
    IF parts = <<>> THEN <<>>
    ELSE IF Len(parts) = 1 THEN parts[1]
    ELSE parts[1] \o sep \o JoinWith(Tail(parts), sep)

Range(s) == {s[i] : i \in 1..Len(s)}

MapSeq(s, F(_)) == [i \in 1..Len(s) |-> F(s[i])]

RECURSIVE SeqOfSet(_)
\* the elements of a set of integers in ascending order
SeqOfSet(S) ==
    IF S = {} THEN <<>>
    ELSE LET m == CHOOSE a \in S : \A b \in S : a <= b
         IN <<m>> \o SeqOfSet(S \ {m})

Reverse(s) == [i \in 1..Len(s) |-> s[Len(s) + 1 - i]]

-----------------------------------------------------------------------------
(* Path scheme: createConfig                                               *)

SLASH == <<"/">>
T_BUILD == <<"_", "b", "u", "i", "l", "d">>
T_INSTTMP == <<"_", "i", "n", "s", "t", "t", "m", "p">>
T_INSTALL == <<"_", "i", "n", "s", "t", "a", "l", "l">>
S_ESY == <<"_", "e", "s", "y">>
S_STORE == <<"s", "t", "o", "r", "e">>
S_LIB == <<"l", "i", "b">>

pathJoin(parts) == JoinWith(parts, SLASH)

sandboxLocalStorePath(cfg) == pathJoin(<<cfg.sandboxPath, S_ESY, S_STORE>>)

\* a mutant of genPath: every build goes to the store
genPathAlwaysStore(cfg, sb, build, tree, segments) ==
    pathJoin(<<cfg.storePath, tree, sb.id[build]>> \o segments)

genPath(cfg, sb, build, tree, segments) ==
    IF sb.shouldBePersisted[build]
    THEN pathJoin(<<cfg.storePath, tree, sb.id[build]>> \o segments)
    ELSE pathJoin(<<sandboxLocalStorePath(cfg), tree, sb.id[build]>> \o segments)

getBuildPath(cfg, sb, build, segments) == genPath(cfg, sb, build, T_BUILD, segments)

\* a mutant of the staging path: the staging tree is called `_tmp`
getInstallPathTmp(cfg, sb, build, segments) ==
    genPath(cfg, sb, build, <<"_", "t", "m", "p">>, segments)

getInstallPath(cfg, sb, build, segments) == genPath(cfg, sb, build, T_INSTTMP, segments)
getFinalInstallPath(cfg, sb, build, segments) == genPath(cfg, sb, build, T_INSTALL, segments)

\* the configuration of the in-process builder's caller, and the placeholder
\* configuration of the ejecting builder
LocalConfig == [storePath |-> <<"/", "s">>, sandboxPath |-> <<"/", "w">>]
STORE_PATH == <<"$", "E", "S", "Y", "_", "E", "J", "E", "C", "T", "_", "_", "S", "T", "O", "R", "E">>
SANDBOX_PATH == <<"$", "E", "S", "Y", "_", "E", "J", "E", "C", "T", "_", "_", "S", "A", "N", "D", "B", "O", "X">>
buildConfig == [storePath |-> STORE_PATH, sandboxPath |-> SANDBOX_PATH]

-----------------------------------------------------------------------------
(* Build graphs                                                            *)

\* number of Build objects of the generated graphs (object 1 is the root)
NumBuilds == 4

IdLetters == <<"a", "b", "c", "d", "e", "f", "g", "h">>

Builds(sb) == DOMAIN sb.dependencies

ForwardEdges(n) == {e \in (1..n) \X (1..n) : e[1] < e[2]}

\* A sandbox of n Build objects: `edges` are the dependency edges, `rev`
\* orders each dependency list downwards, `share` lets the last two objects
\* carry one id (two objects of one logical build), `mixed` makes the
\* odd-numbered builds non-persistent. name[b] is the build's name (here one
\* name per id), errors[b] its list of manifest errors, exportedEnv[b] the
\* names it exports with scope "global" and exclusive: true.
MkSandbox(n, edges, rev, share, mixed) ==
    [root |-> 1,
     dependencies |->
        [b \in 1..n |->
            LET up == SeqOfSet({d \in 1..n : <<b, d>> \in edges})
            IN IF rev THEN Reverse(up) ELSE up],
     id |-> [b \in 1..n |->
                IF share /\ b = n /\ n > 1 THEN <<IdLetters[n - 1]>>
                ELSE <<IdLetters[b]>>],
     shouldBePersisted |-> [b \in 1..n |-> IF mixed THEN b % 2 = 0 ELSE TRUE],
     mutatesSourcePath |-> [b \in 1..n |-> FALSE],
     command |-> [b \in 1..n |-> <<>>],
     hasCommand |-> [b \in 1..n |-> FALSE],
     name |-> [b \in 1..n |->
                IF share /\ b = n /\ n > 1 THEN <<IdLetters[n - 1]>>
                ELSE <<IdLetters[b]>>],
     errors |-> [b \in 1..n |-> <<>>],
     exportedEnv |-> [b \in 1..n |-> {}]]

\* Builds of equal id have identical inputs (the data model's invariant):
\* the two objects of a shared id list the same dependencies.
DagSandboxes(n) ==
    {MkSandbox(n, edges, rev, share, mixed) :
        edges \in SUBSET ForwardEdges(n), rev \in BOOLEAN,
        share \in BOOLEAN, mixed \in BOOLEAN}

EqualIdsEqualInputs(sb) ==
    \A b, c \in Builds(sb) :
        sb.id[b] = sb.id[c] =>
            MapSeq(sb.dependencies[b], LAMBDA d : sb.id[d])
              = MapSeq(sb.dependencies[c], LAMBDA d : sb.id[d])

GraphSandboxes == {sb \in DagSandboxes(NumBuilds) : EqualIdsEqualInputs(sb)}

\* ids reachable from build b through one or more dependency edges, computed
\* as a fixpoint over the objects (independent of the traversals)
RECURSIVE Closure(_, _)
Closure(sb, S) ==
    LET T == S \cup UNION {Range(sb.dependencies[b]) : b \in S}
    IN IF T = S THEN S ELSE Closure(sb, T)

ReachableBuilds(sb, b) == Closure(sb, {b})
TransitiveDeps(sb, b) == Closure(sb, Range(sb.dependencies[b]))
ReachableIds(sb, b) == {sb.id[d] : d \in ReachableBuilds(sb, b)}
TransitiveDepIds(sb, b) == {sb.id[d] : d \in TransitiveDeps(sb, b)}

-----------------------------------------------------------------------------
(* traverse: BFS for build dep graph                                       *)

\* one state of the loop: [queue, seen, visited]
BfsStart(build) == [queue |-> <<build>>, seen |-> {}, visited |-> <<>>]

\* a mutant of the loop body: no `seen` check
BfsStepNoSeen(sb, s) ==
    LET c == Head(s.queue)
    IN [queue |-> Tail(s.queue) \o sb.dependencies[c],
        seen |-> s.seen \cup {sb.id[c]},
        visited |-> Append(s.visited, c)]

\* one iteration of `while (queue.length > 0)`
BfsStep(sb, s) ==
    LET c == Head(s.queue)
    IN IF sb.id[c] \in s.seen
       THEN [s EXCEPT !.queue = Tail(s.queue)]
       ELSE [queue |-> Tail(s.queue) \o sb.dependencies[c],
             seen |-> s.seen \cup {sb.id[c]},
             visited |-> Append(s.visited, c)]

RECURSIVE BfsRun(_, _)
BfsRun(sb, s) == IF s.queue = <<>> THEN s ELSE BfsRun(sb, BfsStep(sb, s))

\* the builds f is called on by traverse(build, f), in call order
traverse(sb, build) == BfsRun(sb, BfsStart(build)).visited

(* traverseDeepFirst: the recursive inner traverse as a call stack.       *)
(* A frame [build, i, entered]: entered is FALSE until the `seen` test of  *)
(* the call has run; i is the index of the next dependency of the loop.    *)

Frame(build) == [build |-> build, i |-> 1, entered |-> FALSE]

DfsStart(build) == [stack |-> <<Frame(build)>>, seen |-> {}, visited |-> <<>>]

Pop(st) == SubSeq(st, 1, Len(st) - 1)
Top(st) == st[Len(st)]

\* a mutant: f(build) is called before the loop over the dependencies
DfsStepPreOrder(sb, s) ==
    LET fr == Top(s.stack)
        b == fr.build
        n == Len(s.stack)
    IN IF ~fr.entered
       THEN IF sb.id[b] \in s.seen
            THEN [s EXCEPT !.stack = Pop(s.stack)]
            ELSE [stack |-> [s.stack EXCEPT ![n].entered = TRUE],
                  seen |-> s.seen \cup {sb.id[b]},
                  visited |-> Append(s.visited, b)]
       ELSE IF fr.i <= Len(sb.dependencies[b])
            THEN [s EXCEPT !.stack =
                    Append([s.stack EXCEPT ![n].i = fr.i + 1],
                           Frame(sb.dependencies[b][fr.i]))]
            ELSE [s EXCEPT !.stack = Pop(s.stack)]

\* a mutant: seen.add(build.id) comes after the loop, next to f(build)
DfsStepSeenAfterLoop(sb, s) ==
    LET fr == Top(s.stack)
        b == fr.build
        n == Len(s.stack)
    IN IF ~fr.entered
       THEN IF sb.id[b] \in s.seen
            THEN [s EXCEPT !.stack = Pop(s.stack)]
            ELSE [s EXCEPT !.stack = [s.stack EXCEPT ![n].entered = TRUE]]
       ELSE IF fr.i <= Len(sb.dependencies[b])
            THEN [s EXCEPT !.stack =
                    Append([s.stack EXCEPT ![n].i = fr.i + 1],
                           Frame(sb.dependencies[b][fr.i]))]
            ELSE [s EXCEPT !.stack = Pop(s.stack),
                           !.seen = s.seen \cup {sb.id[b]},
                           !.visited = Append(s.visited, b)]

\* one step of the inner traverse(build)
DfsStep(sb, s) ==
    LET fr == Top(s.stack)
        b == fr.build
        n == Len(s.stack)
    IN IF ~fr.entered
       THEN IF sb.id[b] \in s.seen
            THEN [s EXCEPT !.stack = Pop(s.stack)]
            ELSE [s EXCEPT !.stack = [s.stack EXCEPT ![n].entered = TRUE],
                           !.seen = s.seen \cup {sb.id[b]}]
       ELSE IF fr.i <= Len(sb.dependencies[b])
            THEN [s EXCEPT !.stack =
                    Append([s.stack EXCEPT ![n].i = fr.i + 1],
                           Frame(sb.dependencies[b][fr.i]))]
            ELSE [s EXCEPT !.stack = Pop(s.stack),
                           !.visited = Append(s.visited, b)]

RECURSIVE DfsRun(_, _)
DfsRun(sb, s) == IF s.stack = <<>> THEN s ELSE DfsRun(sb, DfsStep(sb, s))

\* the builds f is called on by traverseDeepFirst(build, f), in call order
traverseDeepFirst(sb, build) == DfsRun(sb, DfsStart(build)).visited

\* Collect all transitive dependencies for a `build`
collectTransitiveDependencies(sb, build) ==
    SelectSeq(traverse(sb, build), LAMBDA c : c # build)

-----------------------------------------------------------------------------
(* findlib configuration                                                   *)

COLON == <<":">>

\* the value of `path` in findlib.conf (simple-builder) and in
\* findlib.conf.in (makefile-builder, with the placeholder config)
findLibPath(cfg, sb, build) ==
    JoinWith(
        MapSeq(collectTransitiveDependencies(sb, build),
               LAMBDA dep : getFinalInstallPath(cfg, sb, dep, <<S_LIB>>))
          \o <<getInstallPath(cfg, sb, build, <<S_LIB>>)>>,
        COLON)

renderFindlibConf(cfg, sb, build) ==
    [path |-> findLibPath(cfg, sb, build),
     destdir |-> getInstallPath(cfg, sb, build, <<S_LIB>>)]

-----------------------------------------------------------------------------
(* normalizePackageName                                                    *)

\* bound on the length of the package names drawn
MaxNameLen == 3

\* the characters names are drawn from: the classes of [a-z0-9@/._-]
NameAlphabet == {"a", "@", "/", ".", "_", "-"}

\* the non-empty names of at most n characters
NamesUpTo(n) == UNION {[1..k -> NameAlphabet] : k \in 1..n}

toLowerCase(s) ==
    [i \in 1..Len(s) |->
        CASE s[i] = "A" -> "a"
          [] s[i] = "B" -> "b"
          [] s[i] = "S" -> "s"
          [] OTHER -> s[i]]

\* String.prototype.replace(/c/g, r) for a one-character pattern c
replaceAll(s, c, r) == Flatten([i \in 1..Len(s) |-> IF s[i] = c THEN r ELSE <<s[i]>>])

\* a mutant of the run rule: the pattern is /_/g, every underscore is a match
replaceEachUnderscore(s) == replaceAll(s, "_", <<"_", "_", "_">>)

RECURSIVE replaceUnderscoreRuns(_)
\* .replace(/_+/g, matched => matched + '__'): the match is a maximal run
replaceUnderscoreRuns(s) ==
    IF s = <<>> THEN <<>>
    ELSE IF s[1] = "_" /\ (Len(s) = 1 \/ s[2] # "_")
         THEN <<"_", "_", "_">> \o replaceUnderscoreRuns(Tail(s))
         ELSE <<s[1]>> \o replaceUnderscoreRuns(Tail(s))

R_SLASH == <<"_", "_", "s", "l", "a", "s", "h", "_", "_">>
R_DOT == <<"_", "_", "d", "o", "t", "_", "_">>

normalizePackageName(name) ==
    replaceAll(
      replaceAll(
        replaceAll(
          replaceUnderscoreRuns(replaceAll(toLowerCase(name), "@", <<>>)),
          "/", R_SLASH),
        ".", R_DOT),
      "-", <<"_">>)

-----------------------------------------------------------------------------
(* The rewrite task of step 8 on one file buffer                           *)

\* bound on the number of pieces a drawn file content is made of
MaxPieces == 3

\* Buffer.prototype.indexOf(string): offset of the first occurrence, or -1
indexOf(content, needle) ==
    LET hits == {o \in 0..(Len(content) - Len(needle)) :
                    SubSeq(content, o + 1, o + Len(needle)) = needle}
    IN IF hits = {} THEN -1 ELSE CHOOSE o \in hits : \A h \in hits : o <= h

\* Buffer.prototype.write(string, offset): overwrites in place, never grows
bufferWrite(content, str, offset) ==
    [i \in 1..Len(content) |->
        IF i > offset /\ i <= offset + Len(str) THEN str[i - offset] ELSE content[i]]

\* the buffer a rewrite task hands to fs.writeFile (lines 113-118)
rewriteContent(content, origPath, destPath) ==
    LET offset == indexOf(content, origPath)
    IN IF offset > -1 THEN bufferWrite(content, destPath, offset) ELSE content

\* file contents a build command may leave in install(b): pieces of text
\* around occurrences of the staging path
ContentsOf(origPath, n) ==
    {Flatten(ps) : ps \in UNION {[1..k -> {origPath, <<"x">>, <<"#">>}] : k \in 0..n}}

\* the occurrences of needle in content, as offsets
Occurrences(content, needle) ==
    {o \in 0..(Len(content) - Len(needle)) :
        SubSeq(content, o + 1, o + Len(needle)) = needle}

-----------------------------------------------------------------------------
(* Idle values: the state of the parts a specification does not run        *)

TravIdle ==
    /\ tpc = "idle" /\ seen = {} /\ queue = <<>> /\ stack = <<>>
    /\ visited = <<>> /\ findlib = <<>>
NamesIdle == names = <<>>
RewrIdle == rewr = <<>>
MakeIdle == ruleSet = <<>> /\ graph = <<>> /\ made = {}
HashIdle == hashFiles = <<>> /\ hashLog = <<>>
BuilderIdle ==
    /\ fs = <<>> /\ stores = {} /\ run = 0 /\ chain = <<>> /\ cur = 0
    /\ pc = "idle" /\ cmdIdx = 0 /\ rw = <<>> /\ writes = {}
    /\ execLog = <<>> /\ outcome = <<>> /\ hist = <<>>

-----------------------------------------------------------------------------
(* SpecTraverse: the two traversals and the findlib path on every graph    *)

othersOfTraverse == <<sandbox, config, names, rewr, makeVars, hashVars, builderVars>>

InitTraverse ==
    /\ sandbox \in GraphSandboxes
    /\ config = LocalConfig
    /\ tpc \in {"traverse", "traverseDeepFirst", "findlib"}
    /\ seen = {}
    /\ queue = IF tpc = "traverse" THEN BfsStart(sandbox.root).queue ELSE <<>>
    /\ stack = IF tpc = "traverseDeepFirst" THEN DfsStart(sandbox.root).stack ELSE <<>>
    /\ visited = <<>>
    /\ findlib = <<>>
    /\ NamesIdle /\ RewrIdle /\ MakeIdle /\ BuilderIdle /\ HashIdle

TraverseLoop ==
    /\ tpc = "traverse" /\ queue # <<>>
    /\ LET s == BfsStep(sandbox, [queue |-> queue, seen |-> seen, visited |-> visited])
       IN queue' = s.queue /\ seen' = s.seen /\ visited' = s.visited
    /\ UNCHANGED <<tpc, stack, findlib>>
    /\ UNCHANGED othersOfTraverse

TraverseReturn ==
    /\ tpc = "traverse" /\ queue = <<>>
    /\ tpc' = "traverseReturned"
    /\ UNCHANGED <<seen, queue, stack, visited, findlib>>
    /\ UNCHANGED othersOfTraverse

DeepFirstStep ==
    /\ tpc = "traverseDeepFirst" /\ stack # <<>>
    /\ LET s == DfsStep(sandbox, [stack |-> stack, seen |-> seen, visited |-> visited])
       IN stack' = s.stack /\ seen' = s.seen /\ visited' = s.visited
    /\ UNCHANGED <<tpc, queue, findlib>>
    /\ UNCHANGED othersOfTraverse

DeepFirstReturn ==
    /\ tpc = "traverseDeepFirst" /\ stack = <<>>
    /\ tpc' = "traverseDeepFirstReturned"
    /\ UNCHANGED <<seen, queue, stack, visited, findlib>>
    /\ UNCHANGED othersOfTraverse

\* renderFindlibConf(build, config) of the in-process builder and the
\* findlib.conf.in of visitBuild(build) of the ejecting builder
RenderFindlib(build) ==
    /\ tpc = "findlib"
    /\ findlib' = [build |-> build,
                   conf |-> renderFindlibConf(config, sandbox, build),
                   confIn |-> renderFindlibConf(buildConfig, sandbox, build)]
    /\ tpc' = "findlibRendered"
    /\ UNCHANGED <<seen, queue, stack, visited>>
    /\ UNCHANGED othersOfTraverse

NextTraverse ==
    \/ TraverseLoop
    \/ TraverseReturn
    \/ DeepFirstStep
    \/ DeepFirstReturn
    \/ \E build \in Builds(sandbox) : RenderFindlib(build)

SpecTraverse == InitTraverse /\ [][NextTraverse]_vars

-----------------------------------------------------------------------------
(* SpecCycle: the two traversals on graphs with dependency cycles          *)

\* number of Build objects of the graphs with cycles
NumCycleBuilds == 3

\* edges from a build to itself or to an earlier build
BackEdges(n) == {e \in (1..n) \X (1..n) : e[1] >= e[2]}

\* the graphs on the objects with any forward edges and up to two back
\* edges: a build may list itself and builds that list it
CyclicSandboxes ==
    {sb \in {MkSandbox(NumCycleBuilds, forward \cup back, FALSE, share, FALSE) :
                forward \in SUBSET ForwardEdges(NumCycleBuilds),
                back \in {B \in SUBSET BackEdges(NumCycleBuilds) : Cardinality(B) <= 2},
                share \in BOOLEAN} :
        EqualIdsEqualInputs(sb)}

InitCycle ==
    /\ sandbox \in CyclicSandboxes
    /\ config = LocalConfig
    /\ tpc \in {"traverse", "traverseDeepFirst"}
    /\ seen = {}
    /\ queue = IF tpc = "traverse" THEN BfsStart(sandbox.root).queue ELSE <<>>
    /\ stack = IF tpc = "traverseDeepFirst" THEN DfsStart(sandbox.root).stack ELSE <<>>
    /\ visited = <<>>
    /\ findlib = <<>>
    /\ NamesIdle /\ RewrIdle /\ MakeIdle /\ BuilderIdle /\ HashIdle

NextCycle ==
    \/ TraverseLoop
    \/ TraverseReturn
    \/ DeepFirstStep
    \/ DeepFirstReturn

\* the loop and the recursion are run to their end: nothing suspends them
SpecCycle == InitCycle /\ [][NextCycle]_vars /\ WF_vars(NextCycle)

-----------------------------------------------------------------------------
(* SpecNormalize: normalizePackageName on two names                        *)

InitNormalize ==
    /\ names \in [x : NamesUpTo(MaxNameLen), y : NamesUpTo(MaxNameLen),
                  nx : {<<>>}, ny : {<<>>}, pc : {"start"}]
    /\ sandbox = <<>> /\ config = <<>>
    /\ TravIdle /\ RewrIdle /\ MakeIdle /\ BuilderIdle /\ HashIdle

Normalize ==
    /\ names.pc = "start"
    /\ names' = [names EXCEPT !.nx = normalizePackageName(names.x),
                              !.ny = normalizePackageName(names.y),
                              !.pc = "done"]
    /\ UNCHANGED <<sandbox, config, travVars, rewr, makeVars, builderVars, hashVars>>

NextNormalize == Normalize

SpecNormalize == InitNormalize /\ [][NextNormalize]_vars

\* normalizePackageName on one name (the second is fixed)
InitUnderscore ==
    /\ names \in [x : NamesUpTo(MaxNameLen), y : {<<"_", "-", "_">>},
                  nx : {<<>>}, ny : {<<>>}, pc : {"start"}]
    /\ sandbox = <<>> /\ config = <<>>
    /\ TravIdle /\ RewrIdle /\ MakeIdle /\ BuilderIdle /\ HashIdle

SpecUnderscore == InitUnderscore /\ [][NextNormalize]_vars

-----------------------------------------------------------------------------
(* SpecRewrite: one rewrite task on one file of install(b)                 *)

RewriteSandboxes ==
    {MkSandbox(1, {}, FALSE, FALSE, mixed) : mixed \in BOOLEAN}

InitRewrite ==
    /\ sandbox \in RewriteSandboxes
    /\ config = LocalConfig
    /\ rewr \in [content : ContentsOf(getInstallPath(config, sandbox, 1, <<>>), MaxPieces),
                 written : {<<>>}, pc : {"start"}]
    /\ TravIdle /\ NamesIdle /\ MakeIdle /\ BuilderIdle /\ HashIdle

RewriteTask ==
    /\ rewr.pc = "start"
    /\ rewr' = [rewr EXCEPT
                  !.written = rewriteContent(rewr.content,
                                             getInstallPath(config, sandbox, 1, <<>>),
                                             getFinalInstallPath(config, sandbox, 1, <<>>)),
                  !.pc = "done"]
    /\ UNCHANGED <<sandbox, config, travVars, names, makeVars, builderVars, hashVars>>

NextRewrite == RewriteTask

SpecRewrite == InitRewrite /\ [][NextRewrite]_vars

\* bound on the length of the directory names the drawn paths are made of
MaxPathLen == 2

\* absolute paths of one directory below the root
ConfigPaths == {SLASH \o d : d \in UNION {[1..k -> {"s", "w"}] : k \in 1..MaxPathLen}}

\* the rewrite task under every configuration createConfig can be given
InitRewritePaths ==
    /\ sandbox \in RewriteSandboxes
    /\ config \in [storePath : ConfigPaths, sandboxPath : ConfigPaths]
    /\ rewr \in [content : ContentsOf(getInstallPath(config, sandbox, 1, <<>>), MaxPieces),
                 written : {<<>>}, pc : {"start"}]
    /\ TravIdle /\ NamesIdle /\ MakeIdle /\ BuilderIdle /\ HashIdle

SpecRewritePaths == InitRewritePaths /\ [][NextRewrite]_vars

-----------------------------------------------------------------------------
(* The ejecting builder: the rule list of renderToMakefile, and its        *)
(* execution by `make build`                                               *)

N_BUILD == <<"b", "u", "i", "l", "d">>
N_SHELL == <<"s", "h", "e", "l", "l">>
N_CLEAN == <<"c", "l", "e", "a", "n">>
ESY_STORE == <<"e", "s", "y", "-">> \o S_STORE
ESY_ROOT == <<"e", "s", "y", "-", "r", "o", "o", "t">>
SHELL_ENV_FOR == <<"s", "h", "e", "l", "l", "_", "e", "n", "v", "_", "f", "o", "r", "_", "_">>

\* $(ESY_EJECT__STORE), $(ESY_EJECT__SANDBOX) and $(ESY_EJECT__ROOT)
MK_STORE == <<"$", "(">> \o Tail(STORE_PATH) \o <<")">>
MK_SANDBOX == <<"$", "(">> \o Tail(SANDBOX_PATH) \o <<")">>
MK_ROOT == <<"$", "(">> \o SubSeq(STORE_PATH, 2, 12) \o <<"R", "O", "O", "T", ")">>

\* the six directories of the rule `mkdir -p $(@)`, in the order of the list
storeDirectories ==
    <<pathJoin(<<MK_STORE, T_INSTALL>>),
      pathJoin(<<MK_STORE, T_BUILD>>),
      pathJoin(<<MK_STORE, T_INSTTMP>>),
      pathJoin(<<MK_SANDBOX, S_ESY, S_STORE, T_INSTALL>>),
      pathJoin(<<MK_SANDBOX, S_ESY, S_STORE, T_INSTTMP>>),
      pathJoin(<<MK_SANDBOX, S_ESY, S_STORE, T_BUILD>>)>>

REALPATH == pathJoin(<<MK_ROOT, <<"b", "i", "n">>, <<"r", "e", "a", "l", "p", "a", "t", "h">>>>)

createBuildRuleName(sb, build, target) == sb.name[build] \o <<".">> \o target

\* a rule of the list; env is the define a per-build rule sources, if any
MakeRule(target, dependencies, phony, env) ==
    [type |-> "rule", target |-> target, dependencies |-> dependencies,
     phony |-> phony, env |-> env]

shellEnvName(sb, build) == SHELL_ENV_FOR \o normalizePackageName(sb.name[build])

\* a mutant of createBuildRule: the dependencies of the build are left out
createBuildRuleNoDeps(sb, build, target, withBuildEnv) ==
    MakeRule(createBuildRuleName(sb, build, target), <<ESY_STORE, ESY_ROOT>>, TRUE,
             IF withBuildEnv THEN shellEnvName(sb, build) ELSE <<>>)

createBuildRule(sb, build, target, withBuildEnv) ==
    MakeRule(createBuildRuleName(sb, build, target),
             <<ESY_STORE, ESY_ROOT>>
               \o MapSeq(sb.dependencies[build],
                         LAMBDA dep : createBuildRuleName(sb, dep, N_BUILD)),
             TRUE,
             IF withBuildEnv THEN shellEnvName(sb, build) ELSE <<>>)

\* the items visitBuild(build) pushes to the rule list
visitBuild(sb, build) ==
    <<[type |-> "define", name |-> shellEnvName(sb, build), key |-> sb.id[build]],
      createBuildRule(sb, build, N_BUILD, TRUE),
      createBuildRule(sb, build, N_SHELL, TRUE),
      createBuildRule(sb, build, N_CLEAN, FALSE)>>

\* the rules and defines of the list when renderToMakefile hands it to the
\* Makefile writer (the raw items, which set variables, are left out)
renderToMakefile(sb) ==
    <<MakeRule(N_BUILD, <<createBuildRuleName(sb, sb.root, N_BUILD)>>, TRUE, <<>>),
      MakeRule(N_BUILD \o <<"-">> \o N_SHELL, <<createBuildRuleName(sb, sb.root, N_SHELL)>>, TRUE, <<>>),
      MakeRule(N_CLEAN, <<>>, TRUE, <<>>),
      MakeRule(JoinWith(storeDirectories, <<" ">>), <<>>, FALSE, <<>>),
      MakeRule(ESY_STORE, storeDirectories, TRUE, <<>>),
      MakeRule(REALPATH, <<REALPATH \o <<".", "c">>>>, FALSE, <<>>),
      MakeRule(ESY_ROOT, <<REALPATH>>, TRUE, <<>>)>>
    \o Flatten(MapSeq(traverse(sb, sb.root), LAMBDA build : visitBuild(sb, build)))

(* Make: a rule `<targets>: <prerequisites>` defines each of its targets;   *)
(* make reads the Makefile into a dependency graph, then runs the rule of  *)
(* a target after the rules of all its prerequisites that are targets      *)
(* have completed.                                                         *)

\* the words of a target list: the maximal pieces without a space
words(s) ==
    LET starts == {i \in 1..Len(s) : s[i] # " " /\ (i = 1 \/ s[i - 1] = " ")}
        ends == {j \in 1..Len(s) : s[j] # " " /\ (j = Len(s) \/ s[j + 1] = " ")}
        endOf(i) == CHOOSE j \in ends : j >= i /\ \A k \in ends : k >= i => j <= k
    IN {SubSeq(s, i, endOf(i)) : i \in starts}

Rules(rs) == {i \in DOMAIN rs : rs[i].type = "rule"}

\* the dependency graph of a rule list: the prerequisites of every target,
\* those of all the rules that name the target taken together
readMakefile(rs) ==
    LET targetsOf == [i \in Rules(rs) |-> words(rs[i].target)]
        targets == UNION {targetsOf[i] : i \in Rules(rs)}
    IN [t \in targets |->
            UNION {Range(rs[i].dependencies) : i \in {j \in Rules(rs) : t \in targetsOf[j]}}]

RECURSIVE Needed(_, _)
\* the targets make has to consider for the goals S
Needed(g, S) ==
    LET T == S \cup (UNION {g[t] : t \in S} \cap DOMAIN g)
    IN IF T = S THEN S ELSE Needed(g, T)

\* number of Build objects of the sandboxes handed to the ejecting builder
NumEjectBuilds == 3

\* how the last Build object is named: by a name of its own ("own"), by
\* the name of the object before it, as another version of one package has
\* it ("same"), or by that name under a scope ("scoped": b and @b)
NameSchemes == {"own", "same", "scoped"}

Named(sb, n, scheme) ==
    [sb EXCEPT !.name[n] =
        IF scheme = "same" THEN sb.name[n - 1]
        ELSE IF scheme = "scoped" THEN <<"@">> \o sb.name[n - 1]
        ELSE @]

\* the sandboxes handed to the ejecting builder: every DAG, with the last
\* two objects of one id (then of one name) or of two ids under each naming
EjectSandboxes ==
    {sb \in {Named(MkSandbox(NumEjectBuilds, edges, FALSE, c[1], FALSE),
                   NumEjectBuilds, c[2]) :
                edges \in SUBSET ForwardEdges(NumEjectBuilds),
                c \in {<<TRUE, "own">>} \cup ({FALSE} \X NameSchemes)} :
        EqualIdsEqualInputs(sb)}

InitMake ==
    /\ sandbox \in EjectSandboxes
    /\ config = buildConfig
    /\ ruleSet = <<>>
    /\ graph = <<>>
    /\ made = {}
    /\ TravIdle /\ NamesIdle /\ RewrIdle /\ BuilderIdle /\ HashIdle

\* renderToMakefile(sandbox, outputPath)
RenderToMakefile ==
    /\ ruleSet = <<>>
    /\ ruleSet' = renderToMakefile(sandbox)
    /\ UNCHANGED <<sandbox, config, travVars, names, rewr, graph, made, builderVars, hashVars>>

\* `make build` starts: the Makefile is read
MakeRead ==
    /\ ruleSet # <<>> /\ graph = <<>>
    /\ graph' = readMakefile(ruleSet)
    /\ UNCHANGED <<sandbox, config, travVars, names, rewr, ruleSet, made, builderVars, hashVars>>

\* `make build`: the rule of target t runs and completes
MakeRun(t) ==
    /\ t \in Needed(graph, {N_BUILD}) \ made
    /\ \A p \in graph[t] : p \in made \/ p \notin DOMAIN graph
    /\ made' = made \cup {t}
    /\ UNCHANGED <<sandbox, config, travVars, names, rewr, ruleSet, graph, builderVars, hashVars>>

NextMake ==
    \/ RenderToMakefile
    \/ MakeRead
    \/ \E t \in DOMAIN graph : MakeRun(t)

SpecMake == InitMake /\ [][NextMake]_vars

-----------------------------------------------------------------------------
(* The in-process builder: build() and performBuild()                      *)

\* number of invocations of build() on one sandbox and store
NumRuns == 2

INSTALL_DIRS == <<"lib", "bin", "sbin", "man", "doc", "share", "stublibs", "etc">>
BUILD_DIRS == <<"_esy">>
STORE_DIRS == <<T_BUILD, T_INSTALL, T_INSTTMP>>

Absent == [exists |-> FALSE, dirs |-> {}, files |-> <<>>]

\* the per-build trees of the two stores initStore prepares: `_build/<id>`,
\* `_install/<id>` and `_insttmp/<id>` under the store and under the
\* sandbox-local store
TreePaths(cfg, sb) ==
    {pathJoin(<<base, t, sb.id[b]>>) :
        base \in {cfg.storePath, sandboxLocalStorePath(cfg)},
        b \in Builds(sb), t \in Range(STORE_DIRS)}

buildPathOf(b) == getBuildPath(config, sandbox, b, <<>>)
installPathOf(b) == getInstallPath(config, sandbox, b, <<>>)
finalInstallPathOf(b) == getFinalInstallPath(config, sandbox, b, <<>>)

\* A sandbox for the builder. command[b] is the list of commands of b; a
\* command is the text it leaves in a file of install(b)/bin, as pieces: "I"
\* stands for the value of $cur__install the command embeds, the other
\* pieces for themselves.
BuilderSandbox(n, edges, nonPersisted, mutating, noCommand, commands) ==
    [MkSandbox(n, edges, FALSE, FALSE, FALSE) EXCEPT
        !.shouldBePersisted = [b \in 1..n |-> b \notin nonPersisted],
        !.mutatesSourcePath = [b \in 1..n |-> b \in mutating],
        !.hasCommand = [b \in 1..n |-> b \notin noCommand],
        !.command = commands]

\* a leaf; a chain of three; a diamond
SbLeaf(p) ==
    BuilderSandbox(1, {}, IF p THEN {} ELSE {1}, {}, {},
                   <<  << <<"I", "#">>, <<"x", "I", "I">> >>  >>)
SbChain(p) ==
    BuilderSandbox(3, {<<1, 2>>, <<2, 3>>}, IF p THEN {2} ELSE {1, 3}, {2}, {3},
                   << <<>>, << <<"I">> >>, <<>> >>)
SbDiamond ==
    BuilderSandbox(4, {<<1, 2>>, <<1, 3>>, <<2, 4>>, <<3, 4>>}, {1, 3}, {}, {2},
                   << <<>>, <<>>, << <<"I", "x">> >>, <<>> >>)

\* the chain with a manifest error on its leaf; the diamond whose two middle
\* builds export one variable with scope "global" and exclusive: true
SbInvalid ==
    [SbChain(TRUE) EXCEPT !.errors = [b \in 1..3 |-> IF b = 3 THEN <<"e">> ELSE <<>>]]
SbClash ==
    [SbDiamond EXCEPT !.exportedEnv = [b \in 1..4 |-> IF b \in {2, 3} THEN {"V"} ELSE {}]]

\* the diamond whose first middle build alone has a command: its sibling
\* comes later in the order and does not depend on it
SbSiblings ==
    BuilderSandbox(4, {<<1, 2>>, <<1, 3>>, <<2, 4>>, <<3, 4>>}, {}, {}, {1, 3, 4},
                   << <<>>, << <<"x">> >>, <<>>, <<>> >>)

BuilderSandboxes ==
    {SbLeaf(TRUE), SbLeaf(FALSE), SbChain(TRUE), SbChain(FALSE), SbDiamond,
     SbInvalid, SbClash, SbSiblings}

\* the text command i of build b writes
CommandOutput(b, i) ==
    Flatten(MapSeq(sandbox.command[b][i],
                   LAMBDA piece : IF piece = "I" THEN installPathOf(b) ELSE <<piece>>))

\* the file command i writes, and the files a directory of install(b) may hold
CommandFile(i) == IF i = 1 THEN "bin/f1" ELSE "bin/f2"
FilesIn(d) == IF d = "bin" THEN <<"bin/f1", "bin/f2">> ELSE <<>>

\* fs.walk(dir): every entry below dir, a directory before its entries
walk(tree) ==
    Flatten(MapSeq(INSTALL_DIRS,
        LAMBDA d : IF d \in tree.dirs
                   THEN <<d>> \o SelectSeq(FilesIn(d), LAMBDA f : f \in DOMAIN tree.files)
                   ELSE <<>>))

NoRewrite == [status |-> "none", todo |-> <<>>, step |-> "stat", cause |-> "none"]

Quiescent == writes = {} /\ \A b \in DOMAIN rw : rw[b].status # "running"

current == chain[cur]

builderOthers == <<sandbox, config, travVars, names, rewr, makeVars, hashVars>>

Init ==
    /\ sandbox \in BuilderSandboxes
    /\ config = LocalConfig
    /\ fs = [p \in TreePaths(config, sandbox) |-> Absent]
    /\ stores = {}
    /\ run = 1
    /\ chain = <<>>
    /\ cur = 0
    /\ pc = "initStore"
    /\ cmdIdx = 0
    /\ rw = [b \in Builds(sandbox) |-> NoRewrite]
    /\ writes = {}
    /\ execLog = <<>>
    /\ outcome = [b \in Builds(sandbox) |-> "none"]
    /\ hist = [existedAtStart |-> {}, prevCmdFailed |-> {}, prevResolved |-> FALSE,
               snapshot |-> fs]
    /\ TravIdle /\ NamesIdle /\ RewrIdle /\ MakeIdle /\ HashIdle

storeSkeleton(storePath) == {pathJoin(<<storePath, p>>) : p \in Range(STORE_DIRS)}

\* build(), line 22: await initStore(config.storePath)
InitStore ==
    /\ pc = "initStore"
    /\ stores' = stores \cup storeSkeleton(config.storePath)
    /\ pc' = "initLocalStore"
    /\ UNCHANGED <<fs, run, chain, cur, cmdIdx, rw, writes, execLog, outcome, hist>>
    /\ UNCHANGED builderOthers

\* build(), lines 23-29: the sandbox-local store, then the visitor chains one
\* performBuild per build of traverseDeepFirst and build() awaits the chain
InitLocalStore ==
    /\ pc = "initLocalStore"
    /\ stores' = stores \cup storeSkeleton(sandboxLocalStorePath(config))
    /\ chain' = traverseDeepFirst(sandbox, sandbox.root)
    /\ cur' = 1
    /\ pc' = "performBuild"
    /\ UNCHANGED <<fs, run, cmdIdx, rw, writes, execLog, outcome, hist>>
    /\ UNCHANGED builderOthers

\* a mutant of the cache test: the store is not looked at
cachedIgnoringStore(b) == sandbox.shouldBePersisted[b]

\* line 42: build.shouldBePersisted && (await fs.exists(finalInstallPath))
cached(b) == sandbox.shouldBePersisted[b] /\ fs[finalInstallPathOf(b)].exists

\* the promise chain after performBuild(current) has resolved
Resolved(b, how) ==
    /\ outcome' = [outcome EXCEPT ![b] = how]
    /\ IF cur < Len(chain)
       THEN cur' = cur + 1 /\ pc' = "performBuild"
       ELSE cur' = cur /\ pc' = "resolved"

\* a mutant of the chain: the next performBuild is chained on the rejection
\* too (then(f, f))
chainRejectedGoesOn(k) ==
    IF k < Len(chain) THEN [cur |-> k + 1, pc |-> "performBuild"]
    ELSE [cur |-> k, pc |-> "resolved"]

\* a mutant of the chain: only the builds that depend on the failed one are
\* skipped, the chain goes on with the next build that does not
chainRejectedSkipsDependents(k) ==
    LET free == {j \in (k + 1)..Len(chain) :
                    chain[k] \notin TransitiveDeps(sandbox, chain[j])}
    IN IF free = {} THEN [cur |-> k, pc |-> "rejected"]
       ELSE [cur |-> CHOOSE j \in free : \A i \in free : j <= i, pc |-> "performBuild"]

\* the promise chain after performBuild(chain[k]) has rejected: the callbacks
\* chained with then() at line 27 are skipped and `await buildInProgress`
\* throws
chainRejected(k) == [cur |-> k, pc |-> "rejected"]

\* performBuild(b) throws
Rejected(b, how) ==
    /\ outcome' = [outcome EXCEPT ![b] = how]
    /\ cur' = chainRejected(cur).cur
    /\ pc' = chainRejected(cur).pc

\* performBuild, lines 37-45: the cache check
CacheCheck ==
    /\ pc = "performBuild"
    /\ IF cached(current)
       THEN Resolved(current, "cached")
       ELSE /\ pc' = "clean"
            /\ outcome' = [outcome EXCEPT ![current] = "started"]
            /\ cur' = cur
    /\ UNCHANGED <<fs, stores, run, chain, cmdIdx, rw, writes, execLog, hist>>
    /\ UNCHANGED builderOthers

\* lines 49-53: the file system after the three rmtree calls
rmtrees(b) ==
    [fs EXCEPT ![finalInstallPathOf(b)] = Absent,
               ![installPathOf(b)] = Absent,
               ![buildPathOf(b)] = Absent]

Clean ==
    /\ pc = "clean"
    /\ fs' = rmtrees(current)
    /\ pc' = "mkdirs"
    /\ UNCHANGED <<stores, run, chain, cur, cmdIdx, rw, writes, execLog, outcome, hist>>
    /\ UNCHANGED builderOthers

\* lines 55-58: the skeleton directories of build(b) and install(b)
MkDirs ==
    /\ pc = "mkdirs"
    /\ fs' = [fs EXCEPT
                ![buildPathOf(current)] =
                    [exists |-> TRUE, dirs |-> @.dirs \cup Range(BUILD_DIRS), files |-> @.files],
                ![installPathOf(current)] =
                    [exists |-> TRUE, dirs |-> @.dirs \cup Range(INSTALL_DIRS), files |-> @.files]]
    /\ pc' = IF sandbox.mutatesSourcePath[current] THEN "rsync" ELSE "env"
    /\ UNCHANGED <<stores, run, chain, cur, cmdIdx, rw, writes, execLog, outcome, hist>>
    /\ UNCHANGED builderOthers

putFile(tree, name, content) ==
    [tree EXCEPT !.files = [f \in DOMAIN @ \cup {name} |-> IF f = name THEN content ELSE @[f]]]

\* lines 60-66: the sources are mirrored into build(b)
Rsync ==
    /\ pc = "rsync"
    /\ fs' = [fs EXCEPT ![buildPathOf(current)] = putFile(@, "src", <<>>)]
    /\ pc' = "env"
    /\ UNCHANGED <<stores, run, chain, cur, cmdIdx, rw, writes, execLog, outcome, hist>>
    /\ UNCHANGED builderOthers

\* Env.calculateEnvironment(config, build, sandbox.env) fails with an export
\* conflict: two transitive dependencies of the build export one name with
\* exclusive: true at global scope
exportConflict(sb, build) ==
    \E d, e \in TransitiveDeps(sb, build) :
        sb.id[d] # sb.id[e] /\ sb.exportedEnv[d] \cap sb.exportedEnv[e] # {}

\* lines 68-72: the environment is composed (a conflict throws out of
\* performBuild) and _esy/env is written
WriteEnv ==
    /\ pc = "env"
    /\ IF exportConflict(sandbox, current)
       THEN /\ Rejected(current, "envFailed")
            /\ fs' = fs
       ELSE /\ fs' = [fs EXCEPT ![buildPathOf(current)] = putFile(@, "_esy/env", <<>>)]
            /\ pc' = "findlib"
            /\ UNCHANGED <<cur, outcome>>
    /\ UNCHANGED <<stores, run, chain, cmdIdx, rw, writes, execLog, hist>>
    /\ UNCHANGED builderOthers

\* lines 74-81 (and 127-128 when build.command is null): _esy/findlib.conf
\* is written; without a command the rename is requested at once
WriteFindlib ==
    /\ pc = "findlib"
    /\ fs' = [fs EXCEPT ![buildPathOf(current)] =
                putFile(@, "_esy/findlib.conf",
                        renderFindlibConf(config, sandbox, current))]
    /\ cmdIdx' = 1
    /\ pc' = IF ~sandbox.hasCommand[current] THEN "rename"
             ELSE IF Len(sandbox.command[current]) = 0 THEN "walk"
             ELSE "exec"
    /\ UNCHANGED <<stores, run, chain, cur, rw, writes, execLog, outcome, hist>>
    /\ UNCHANGED builderOthers

\* child.exec: the promise is rejected when the command exits non-zero
ExitCodes == {0, 1}
execRejects(code) == code # 0

\* a mutant of the command loop: the exit status is ignored
afterExecIgnoringExit(b, i, ok) ==
    IF i < Len(sandbox.command[b]) THEN "exec" ELSE "walk"

\* lines 82-97: where performBuild goes after command i has exited
afterExec(b, i, ok) ==
    IF ~ok THEN "rejected"
    ELSE IF i < Len(sandbox.command[b]) THEN "exec" ELSE "walk"

\* lines 82-97: command cmdIdx runs and exits; a non-zero exit rejects
\* performBuild, and with it the chain and build()
Exec(code) ==
  LET ok == ~execRejects(code) IN
    /\ pc = "exec"
    /\ execLog' = Append(execLog, [run |-> run, build |-> current, i |-> cmdIdx, ok |-> ok])
    /\ fs' = IF ok
             THEN [fs EXCEPT ![installPathOf(current)] =
                      putFile(@, CommandFile(cmdIdx), CommandOutput(current, cmdIdx))]
             ELSE fs
    /\ LET to == afterExec(current, cmdIdx, ok)
       IN IF to = "rejected"
          THEN cur' = chainRejected(cur).cur /\ pc' = chainRejected(cur).pc
          ELSE cur' = cur /\ pc' = to
    /\ cmdIdx' = cmdIdx + 1
    /\ outcome' = IF ok THEN outcome ELSE [outcome EXCEPT ![current] = "cmdFailed"]
    /\ UNCHANGED <<stores, run, chain, rw, writes, hist>>
    /\ UNCHANGED builderOthers

\* lines 99-128: fs.walk has listed install(b); the rewrite tasks are chained
\* on rewriteInProgress (which nothing awaits) and fs.rename is requested
Walk ==
    /\ pc = "walk"
    /\ rw' = [rw EXCEPT ![current] =
                [status |-> "running", todo |-> walk(fs[installPathOf(current)]),
                 step |-> "stat", cause |-> "none"]]
    /\ pc' = "rename"
    /\ UNCHANGED <<fs, stores, run, chain, cur, cmdIdx, writes, execLog, outcome, hist>>
    /\ UNCHANGED builderOthers

\* a mutant of the rename: the tree is copied and the staging tree stays
renameCopying(f, from, to) == [f EXCEPT ![to] = f[from]]

\* fs.rename(from, to) on the file system f
rename(f, from, to) == [f EXCEPT ![to] = f[from], ![from] = Absent]

\* line 128-130: the rename install(b) -> finalInstall(b) takes effect and
\* performBuild returns
Rename ==
    /\ pc = "rename"
    /\ fs[installPathOf(current)].exists
    /\ ~fs[finalInstallPathOf(current)].exists
    /\ fs' = rename(fs, installPathOf(current), finalInstallPathOf(current))
    /\ Resolved(current, "built")
    /\ UNCHANGED <<stores, run, chain, cmdIdx, rw, writes, execLog, hist>>
    /\ UNCHANGED builderOthers

(* The rewrite tasks of build b, run one after another by the chain        *)
(* rewriteInProgress, concurrently with everything that follows line 124.  *)

taskDone(r) ==
    LET rest == Tail(r.todo)
    IN [status |-> IF rest = <<>> THEN "done" ELSE "running", todo |-> rest,
        step |-> "stat", cause |-> "none"]

\* the chain is rejected: the path is gone ("ENOENT") or the file cannot be
\* read ("EIO"); the later tasks never run
taskFailed(r, cause) == [r EXCEPT !.status = "failed", !.cause = cause]

\* line 110: fs.stat(file.absolute) answers; a missing path rejects the chain
RewriteStat(b) ==
    /\ rw[b].status = "running" /\ rw[b].todo # <<>> /\ rw[b].step = "stat"
    /\ LET tree == fs[installPathOf(b)]
           name == Head(rw[b].todo)
       IN rw' = [rw EXCEPT ![b] =
                    IF ~tree.exists THEN taskFailed(@, "ENOENT")
                    ELSE IF name \in DOMAIN tree.files THEN [@ EXCEPT !.step = "read"]
                    ELSE taskDone(@)]
    /\ UNCHANGED <<fs, stores, run, chain, cur, pc, cmdIdx, writes, execLog, outcome, hist>>
    /\ UNCHANGED builderOthers

\* lines 113-119: fs.readFileBuffer answers (or fails: readable = FALSE, or the
\* path is gone); on a hit the buffer is patched and fs.writeFile is called,
\* not awaited
RewriteRead(b, readable) ==
    /\ rw[b].status = "running" /\ rw[b].todo # <<>> /\ rw[b].step = "read"
    /\ LET tree == fs[installPathOf(b)]
           name == Head(rw[b].todo)
       IN IF ~readable \/ ~tree.exists \/ name \notin DOMAIN tree.files
          THEN /\ rw' = [rw EXCEPT ![b] =
                            taskFailed(@, IF tree.exists /\ name \in DOMAIN tree.files
                                          THEN "EIO" ELSE "ENOENT")]
               /\ writes' = writes
          ELSE /\ rw' = [rw EXCEPT ![b] = taskDone(@)]
               /\ writes' =
                    IF indexOf(tree.files[name], installPathOf(b)) > -1
                    THEN writes \cup
                           {[build |-> b, name |-> name, phase |-> "open",
                             content |-> rewriteContent(tree.files[name], installPathOf(b),
                                                        finalInstallPathOf(b))]}
                    ELSE writes
    /\ UNCHANGED <<fs, stores, run, chain, cur, pc, cmdIdx, execLog, outcome, hist>>
    /\ UNCHANGED builderOthers

\* line 118, fs.writeFile: the file is opened at its staging path and
\* truncated; a missing path fails the call (nobody listens)
WriteOpen(w) ==
    /\ w \in writes /\ w.phase = "open"
    /\ IF fs[installPathOf(w.build)].exists
       THEN /\ fs' = [fs EXCEPT ![installPathOf(w.build)] = putFile(@, w.name, <<>>)]
            /\ writes' = (writes \ {w}) \cup {[w EXCEPT !.phase = "write"]}
       ELSE /\ fs' = fs
            /\ writes' = writes \ {w}
    /\ UNCHANGED <<stores, run, chain, cur, pc, cmdIdx, rw, execLog, outcome, hist>>
    /\ UNCHANGED builderOthers

\* line 118, fs.writeFile: the buffer is written through the open descriptor,
\* wherever the tree of the file has been renamed to meanwhile
WriteData(w) ==
    /\ w \in writes /\ w.phase = "write"
    /\ LET at == IF fs[installPathOf(w.build)].exists
                 THEN installPathOf(w.build) ELSE finalInstallPathOf(w.build)
       IN fs' = [fs EXCEPT ![at] = putFile(@, w.name, w.content)]
    /\ writes' = writes \ {w}
    /\ UNCHANGED <<stores, run, chain, cur, pc, cmdIdx, rw, execLog, outcome, hist>>
    /\ UNCHANGED builderOthers

\* build() is invoked again on the same sandbox and store, once the previous
\* invocation has settled and its file operations have ended
NextRun ==
    /\ pc \in {"resolved", "rejected"}
    /\ Quiescent
    /\ run < NumRuns
    /\ run' = run + 1
    /\ pc' = "initStore"
    /\ chain' = <<>>
    /\ cur' = 0
    /\ cmdIdx' = 0
    /\ rw' = [b \in Builds(sandbox) |-> NoRewrite]
    /\ outcome' = [b \in Builds(sandbox) |-> "none"]
    /\ hist' = [existedAtStart |-> {b \in Builds(sandbox) : fs[finalInstallPathOf(b)].exists},
                prevCmdFailed |-> {b \in Builds(sandbox) : outcome[b] = "cmdFailed"},
                prevResolved |-> pc = "resolved",
                snapshot |-> fs]
    /\ UNCHANGED <<fs, stores, writes, execLog>>
    /\ UNCHANGED builderOthers

Next ==
    \/ InitStore
    \/ InitLocalStore
    \/ CacheCheck
    \/ Clean
    \/ MkDirs
    \/ Rsync
    \/ WriteEnv
    \/ WriteFindlib
    \/ \E code \in ExitCodes : Exec(code)
    \/ Walk
    \/ Rename
    \/ \E b \in DOMAIN rw : RewriteStat(b)
    \/ \E b \in DOMAIN rw, readable \in BOOLEAN : RewriteRead(b, readable)
    \/ \E w \in writes : WriteOpen(w)
    \/ \E w \in writes : WriteData(w)
    \/ NextRun

Spec == Init /\ [][Next]_vars

-----------------------------------------------------------------------------
(* SpecHash: the hash helpers of the eject command, each a process run     *)
(* with a folder (and a hash) as its arguments                             *)

\* bound on the number of helper processes run
MaxHashCalls == 3

\* the folders and the hashes the helpers are called with
HashFolders == {<<"/", "s">>, <<"/", "w">>}
Hashes == {<<"a">>, <<"b", "c">>}

\* path.join(folderName, '.esy_hash')
fileName(folderName) ==
    pathJoin(<<folderName, <<".", "e", "s", "y", "_", "h", "a", "s", "h">>>>)

\* doesHashExist.js: what the process prints (fs.existsSync, console.log)
doesHashExist(files, folderName) ==
    IF files[fileName(folderName)].exists
    THEN [stdout |-> << <<"t", "r", "u", "e">> >>, error |-> "none"]
    ELSE [stdout |-> << <<"f", "a", "l", "s", "e">> >>, error |-> "none"]

\* getOldHash.js: the throw is taken when the file exists, and `Exception` is
\* not a name node defines, so what is thrown is a ReferenceError; without
\* the file readFileSync throws ENOENT
getOldHash(files, folderName) ==
    IF files[fileName(folderName)].exists
    THEN [stdout |-> <<>>, error |-> "ReferenceError: Exception is not defined"]
    ELSE IF files[fileName(folderName)].exists
         THEN [stdout |-> <<files[fileName(folderName)].content>>, error |-> "none"]
         ELSE [stdout |-> <<>>, error |-> "ENOENT"]

InitHash ==
    /\ hashFiles = [name \in {fileName(d) : d \in HashFolders} |->
                        [exists |-> FALSE, content |-> <<>>]]
    /\ hashLog = <<>>
    /\ sandbox = <<>> /\ config = <<>>
    /\ TravIdle /\ NamesIdle /\ RewrIdle /\ MakeIdle /\ BuilderIdle

\* a helper process has run: its arguments, the hash file it found and what
\* it left (the lines it printed, the error it died of)
Ran(cmd, folderName, result) ==
    /\ Len(hashLog) < MaxHashCalls
    /\ hashLog' = Append(hashLog, [cmd |-> cmd, folder |-> folderName,
                                   found |-> hashFiles[fileName(folderName)],
                                   stdout |-> result.stdout, error |-> result.error])
    /\ UNCHANGED <<sandbox, config, travVars, names, rewr, makeVars, builderVars>>

\* node saveHash.js <folder> <hash>: fs.writeFileSync(fileName, hashToSave)
SaveHash(folderName, hashToSave) ==
    /\ hashFiles' = [hashFiles EXCEPT ![fileName(folderName)] =
                        [exists |-> TRUE, content |-> hashToSave]]
    /\ Ran("saveHash", folderName, [stdout |-> <<>>, error |-> "none"])

\* node doesHashExist.js <folder>
DoesHashExist(folderName) ==
    /\ Ran("doesHashExist", folderName, doesHashExist(hashFiles, folderName))
    /\ UNCHANGED hashFiles

\* node getOldHash.js <folder>
GetOldHash(folderName) ==
    /\ Ran("getOldHash", folderName, getOldHash(hashFiles, folderName))
    /\ UNCHANGED hashFiles

NextHash ==
    \/ \E d \in HashFolders, h \in Hashes : SaveHash(d, h)
    \/ \E d \in HashFolders : DoesHashExist(d)
    \/ \E d \in HashFolders : GetOldHash(d)

SpecHash == InitHash /\ [][NextHash]_vars

-----------------------------------------------------------------------------
(* Properties of the in-process builder (Spec)                             *)

Started == {"clean", "mkdirs", "rsync", "env", "findlib", "exec", "walk", "rename"}

\* the text of file i of build b once the rewrite task has been applied
Rewritten(b, i) ==
    rewriteContent(CommandOutput(b, i), installPathOf(b), finalInstallPathOf(b))

\* C1 -- Store atomicity: whenever finalInstall(b) exists it is the final
\* rewritten tree: every file a command of b installed has had its step-8
\* rewrite applied (none is pending, half-written or left as the command
\* wrote it).
StoreAtomicity ==
    \A b \in Builds(sandbox) :
        fs[finalInstallPathOf(b)].exists =>
            /\ \A i \in 1..Len(sandbox.command[b]) :
                  CommandFile(i) \in DOMAIN fs[finalInstallPathOf(b)].files =>
                      fs[finalInstallPathOf(b)].files[CommandFile(i)] = Rewritten(b, i)

\* C2 -- A rewrite task that fails on a file it cannot read aborts the
\* build before the rename: finalInstall(b) stays absent and performBuild(b)
\* and build() do not succeed.
RewriteFailureAborts ==
    \A b \in Builds(sandbox) :
        (rw[b].status = "failed" /\ rw[b].cause = "EIO") =>
            /\ ~fs[finalInstallPathOf(b)].exists
            /\ outcome[b] # "built"
            /\ pc # "resolved"

\* C3 -- A command that exits non-zero fails performBuild(b) and build(): it
\* is the last command executed, the rename is not performed (install(b) is
\* still in place), finalInstall(b) is absent, also when it existed before
\* this attempt; and in the next run b is not served from the cache.
CommandFailureAborts ==
    /\ \A b \in Builds(sandbox) :
          outcome[b] = "cmdFailed" =>
              /\ pc = "rejected"
              /\ current = b
              /\ execLog[Len(execLog)].build = b
              /\ execLog[Len(execLog)].run = run
              /\ ~execLog[Len(execLog)].ok
              /\ fs[installPathOf(b)].exists
              /\ ~fs[finalInstallPathOf(b)].exists
    /\ \A b \in hist.prevCmdFailed :
          /\ outcome[b] # "cached"
          /\ (pc = "performBuild" /\ current = b) => ~cached(b)

\* C3 witness: a command of a non-persistent build fails in a run at whose
\* start finalInstall(b) existed.
CommandFailureWitness ==
    \E b \in Builds(sandbox) :
        /\ outcome[b] = "cmdFailed"
        /\ ~sandbox.shouldBePersisted[b]
        /\ b \in hist.existedAtStart

CommandsOf(b, r) == {k \in 1..Len(execLog) : execLog[k].build = b /\ execLog[k].run = r}

TreesOf(f, b) == <<f[buildPathOf(b)], f[installPathOf(b)], f[finalInstallPathOf(b)]>>

\* C4 -- Idempotence: in a run that follows a successful run, no command
\* runs and no tree changes for a persistent build whose finalInstall
\* existed at the start, and when the run has succeeded the store holds
\* what it held after the first.
Idempotence ==
    (run >= 2 /\ hist.prevResolved) =>
        /\ \A b \in hist.existedAtStart :
              sandbox.shouldBePersisted[b] =>
                  /\ TreesOf(fs, b) = TreesOf(hist.snapshot, b)
                  /\ CommandsOf(b, run) = {}
                  /\ outcome[b] \in {"none", "cached"}
        /\ (pc = "resolved" /\ Quiescent) => fs = hist.snapshot

\* C5 -- No step of performBuild(b) runs before finalInstall(d) exists for
\* every transitive dependency d of b; the builds are taken one after
\* another in the order of the chain, every dependency before its dependents.
DependenciesFirst ==
    /\ pc \in Started =>
          \A d \in TransitiveDeps(sandbox, current) : fs[finalInstallPathOf(d)].exists
    /\ \A k \in 1..Len(chain) :
          /\ k < cur => outcome[chain[k]] \in {"cached", "built"}
          /\ k > cur => outcome[chain[k]] = "none"
          /\ \A id \in TransitiveDepIds(sandbox, chain[k]) :
                \E j \in 1..(k - 1) : sandbox.id[chain[j]] = id

\* C5 witness: the root of the diamond has reached its walk step.
DependenciesFirstWitness ==
    /\ pc = "walk"
    /\ current = sandbox.root
    /\ Cardinality(TransitiveDeps(sandbox, current)) = 3

\* a build reachable from the root carries manifest errors
Invalid(sb) == \E b \in ReachableBuilds(sb, sb.root) : sb.errors[b] # <<>>

\* C11 -- Manifest errors: when a build reachable from the root has a
\* non-empty `errors` list, build() fails: no command of any build runs, no
\* build is committed to the store and the operation does not succeed.
ManifestErrorsAbort ==
    Invalid(sandbox) =>
        /\ execLog = <<>>
        /\ \A b \in Builds(sandbox) :
              outcome[b] # "built" /\ ~fs[finalInstallPathOf(b)].exists
        /\ pc # "resolved"

\* C12 -- Exclusive clash: when the environment composition of a build fails
\* with an export conflict, build() fails with that error and no command of
\* any build, the dependencies built earlier in post-order included, has been
\* executed in the run.
ExclusiveClashAborts ==
    \A b \in Builds(sandbox) :
        outcome[b] = "envFailed" =>
            /\ pc = "rejected"
            /\ \A k \in 1..Len(execLog) : execLog[k].run # run

Failed == {"cmdFailed", "envFailed"}

\* C13 -- Failure propagation: when performBuild has failed for a build f,
\* build() has failed, and every build that transitively depends on f is
\* skipped in the run: none of its steps has started, none of its commands
\* has executed, and its trees (finalInstall among them) are as they were at
\* the start of the run.
FailurePropagation ==
    \A f \in Builds(sandbox) :
        outcome[f] \in Failed =>
            /\ pc = "rejected"
            /\ \A c \in Builds(sandbox) :
                  f \in TransitiveDeps(sandbox, c) =>
                      /\ outcome[c] = "none"
                      /\ CommandsOf(c, run) = {}
                      /\ TreesOf(fs, c) = TreesOf(hist.snapshot, c)

\* C13 witness: a command of a dependency of the root has failed in a run at
\* whose start the root was installed.
FailurePropagationWitness ==
    \E f \in TransitiveDeps(sandbox, sandbox.root) :
        /\ outcome[f] = "cmdFailed"
        /\ sandbox.root \in hist.existedAtStart
        /\ fs[finalInstallPathOf(sandbox.root)].exists

\* C14 -- The store is never rolled back, writes are confined per build:
\* no step taken from the start of performBuild(b) to its end changes an
\* existing finalInstall(c) of a build c of another id.
OtherInstallsUntouched ==
    [][(pc \in Started \cup {"performBuild"}) =>
          \A c \in Builds(sandbox) :
              (sandbox.id[c] # sandbox.id[current] /\ fs[finalInstallPathOf(c)].exists) =>
                  fs'[finalInstallPathOf(c)] = fs[finalInstallPathOf(c)]]_vars

\* the path of the scheme, spelled out: base(b)/<tree>/b.id
SchemeBase(b) ==
    IF sandbox.shouldBePersisted[b] THEN config.storePath
    ELSE config.sandboxPath \o <<"/", "_", "e", "s", "y", "/", "s", "t", "o", "r", "e">>
SchemePath(b, tree) == SchemeBase(b) \o <<"/">> \o tree \o <<"/">> \o sandbox.id[b]
SchemeBuild(b) == SchemePath(b, <<"_", "b", "u", "i", "l", "d">>)
SchemeInstall(b) == SchemePath(b, <<"_", "i", "n", "s", "t", "t", "m", "p">>)
SchemeFinalInstall(b) == SchemePath(b, <<"_", "i", "n", "s", "t", "a", "l", "l">>)

\* C15 -- Path scheme base: every tree the builder creates is
\* base(b)/<_build | _insttmp | _install>/b.id of some build b, with base(b)
\* the store for a persistent build and sandboxPath/_esy/store otherwise (so
\* nothing of a non-persistent build is under storePath); segments are
\* appended to it (destdir is install(b)/lib); a built build has its
\* artifacts at base(b)/_install/b.id.
PathSchemeBase ==
    /\ \A p \in DOMAIN fs :
          fs[p].exists =>
              \E b \in Builds(sandbox) :
                  p \in {SchemeBuild(b), SchemeInstall(b), SchemeFinalInstall(b)}
    /\ \A b \in Builds(sandbox) :
          /\ outcome[b] = "built" => fs[SchemeFinalInstall(b)].exists
          /\ (pc \in {"exec", "walk", "rename"} /\ current = b) =>
                /\ fs[SchemeInstall(b)].exists \/ fs[SchemeFinalInstall(b)].exists
                /\ fs[SchemeBuild(b)].files["_esy/findlib.conf"].destdir
                      = SchemeInstall(b) \o <<"/", "l", "i", "b">>

\* C15 witness: a non-persistent and a persistent build have been built.
PathSchemeBaseWitness ==
    \E b, c \in Builds(sandbox) :
        /\ ~sandbox.shouldBePersisted[b] /\ outcome[b] = "built"
        /\ sandbox.shouldBePersisted[c] /\ outcome[c] = "built"

\* C16 -- Successful-build postcondition: once performBuild(b) has returned
\* from the rename, install(b) is absent and finalInstall(b) exists and holds
\* the directories lib, bin, sbin, man, doc, share, stublibs and etc; when
\* b's command is empty or absent no command has run and they are empty.
SuccessPostcondition ==
    \A b \in Builds(sandbox) :
        outcome[b] = "built" =>
            /\ ~fs[installPathOf(b)].exists
            /\ fs[finalInstallPathOf(b)].exists
            /\ fs[finalInstallPathOf(b)].dirs
                  = {"lib", "bin", "sbin", "man", "doc", "share", "stublibs", "etc"}
            /\ (~sandbox.hasCommand[b] \/ sandbox.command[b] = <<>>) =>
                  /\ CommandsOf(b, run) = {}
                  /\ DOMAIN fs[finalInstallPathOf(b)].files = {}

\* C16 witness: build() has resolved after building a build without command,
\* one with an empty command list and one with a command.
SuccessPostconditionWitness ==
    /\ pc = "resolved"
    /\ \A b \in Builds(sandbox) : outcome[b] = "built"
    /\ \E b \in Builds(sandbox) : ~sandbox.hasCommand[b]
    /\ \E b \in Builds(sandbox) : sandbox.hasCommand[b] /\ sandbox.command[b] = <<>>
    /\ \E b \in Builds(sandbox) : CommandsOf(b, run) # {}

\* C19 -- Strict serialization: the builds are performed one at a time in
\* the order of the chain, and every file operation of performBuild of a
\* build, the stat, read and write operations of its rewrite tasks included,
\* has completed when performBuild of the next build starts and when
\* build() resolves.
StrictSerialization ==
    \A k \in 1..Len(chain) :
        (k < cur \/ pc = "resolved") =>
            /\ outcome[chain[k]] \in {"cached", "built"}
            /\ rw[chain[k]].status # "running"
            /\ \A w \in writes : w.build # chain[k]

\* C21 -- First failure stops the chain: once a performBuild has failed,
\* build() has rejected with the error of that build (the only failure of
\* the run); no performBuild has started for any build later in the order,
\* dependent on the failed build or not: none of its commands has run and
\* its trees are as at the start of the run; and every build earlier in the
\* order has succeeded and its finalInstall is still there.
FirstFailureStopsChain ==
    \A f \in Builds(sandbox) :
        outcome[f] \in Failed =>
            /\ pc = "rejected"
            /\ current = f
            /\ \A g \in Builds(sandbox) : outcome[g] \in Failed => g = f
            /\ \A k \in 1..Len(chain) :
                  /\ k > cur =>
                        /\ outcome[chain[k]] = "none"
                        /\ CommandsOf(chain[k], run) = {}
                        /\ TreesOf(fs, chain[k]) = TreesOf(hist.snapshot, chain[k])
                  /\ k < cur =>
                        /\ outcome[chain[k]] \in {"cached", "built"}
                        /\ fs[finalInstallPathOf(chain[k])].exists

\* C21 witness: a build has failed after an earlier build was built in this
\* run, and a build later in the order does not depend on the failed one.
FirstFailureWitness ==
    \E f \in Builds(sandbox) :
        /\ outcome[f] \in Failed
        /\ \E k \in 1..Len(chain) : k < cur /\ outcome[chain[k]] = "built"
        /\ \E k \in 1..Len(chain) :
              k > cur /\ f \notin TransitiveDeps(sandbox, chain[k])

-----------------------------------------------------------------------------
(* Properties of the traversals (SpecTraverse)                             *)

CallsOn(id) == {i \in 1..Len(visited) : sandbox.id[visited[i]] = id}

\* C8 -- Traversal coverage: when traverse (BFS) or traverseDeepFirst (DFS)
\* has returned, the visitor was called exactly once for every id reachable
\* from the root, and for no other id; at no time was it called twice for
\* one id.
TraversalCoverage ==
    /\ tpc \in {"traverse", "traverseDeepFirst"} =>
          \A i, j \in 1..Len(visited) :
              sandbox.id[visited[i]] = sandbox.id[visited[j]] => i = j
    /\ tpc \in {"traverseReturned", "traverseDeepFirstReturned"} =>
          /\ \A id \in ReachableIds(sandbox, sandbox.root) : Cardinality(CallsOn(id)) = 1
          /\ \A i \in 1..Len(visited) :
                sandbox.id[visited[i]] \in ReachableIds(sandbox, sandbox.root)

\* a build reachable from the root along two different paths
IsDiamond(sb) ==
    \E b \in ReachableBuilds(sb, sb.root) :
        Cardinality({p \in ReachableBuilds(sb, sb.root) :
                        b \in Range(sb.dependencies[p])}) >= 2

\* two reachable Build objects share one id
SharesId(sb) ==
    \E b, c \in ReachableBuilds(sb, sb.root) : b # c /\ sb.id[b] = sb.id[c]

\* C8 witness: a traversal has returned on a graph that holds a diamond and
\* two objects of one id.
TraversalCoverageWitness ==
    /\ tpc = "traverseReturned"
    /\ IsDiamond(sandbox) /\ SharesId(sandbox)
    /\ Len(visited) = 3

\* C9 -- Post-order law: on an acyclic graph, whenever traverseDeepFirst has
\* called the visitor on a build, it has called it before on every direct and
\* transitive dependency of that build; when it has returned, the root is
\* the last build visited.
PostOrderLaw ==
    tpc \in {"traverseDeepFirst", "traverseDeepFirstReturned"} =>
        /\ \A i \in 1..Len(visited) :
              \A id \in TransitiveDepIds(sandbox, visited[i]) :
                  \E j \in 1..(i - 1) : sandbox.id[visited[j]] = id
        /\ tpc = "traverseDeepFirstReturned" =>
              /\ visited # <<>>
              /\ visited[Len(visited)] = sandbox.root

\* C9 witness: traverseDeepFirst has returned on a diamond after four calls
\* of the visitor.
PostOrderLawWitness ==
    /\ tpc = "traverseDeepFirstReturned"
    /\ IsDiamond(sandbox) /\ Len(visited) = 4

\* a graph in which a build depends on itself through one or more edges
HasCycle(sb) == \E b \in ReachableBuilds(sb, sb.root) : b \in TransitiveDeps(sb, b)

Unseen == {sandbox.id[b] : b \in Builds(sandbox)} \ seen

RECURSIVE StackWork(_)
\* the work left on the call stack: an entered frame counts its remaining
\* dependencies twice (a call and its return) and its own return
StackWork(st) ==
    IF st = <<>> THEN 0
    ELSE (IF Head(st).entered
          THEN 2 * (Len(sandbox.dependencies[Head(st).build]) + 1 - Head(st).i) + 1
          ELSE 1)
         + StackWork(Tail(st))

\* a natural number every step of a traversal makes smaller
Measure ==
    IF tpc = "traverse"
    THEN Cardinality(Unseen) * (Cardinality(Builds(sandbox)) + 1) + Len(queue)
    ELSE Cardinality(Unseen) * (2 * Cardinality(Builds(sandbox)) + 1) + StackWork(stack)

Returned == tpc \in {"traverseReturned", "traverseDeepFirstReturned"}

\* C20 -- Cycle-safe visitation: on every finite graph, cycles included,
\* traverse and traverseDeepFirst terminate (every step of the loop or of the
\* recursion makes a natural-number measure smaller, and the traversal
\* returns), and the visitor is never called twice for one id.
CycleSafeVisitation ==
    /\ [][/\ (~Returned' => Measure' < Measure /\ Measure' >= 0)
          /\ \A i, j \in 1..Len(visited') :
                sandbox.id[visited'[i]] = sandbox.id[visited'[j]] => i = j]_vars
    /\ <>Returned

\* C20 witness: traverseDeepFirst has returned on a graph in which the root
\* is on a dependency cycle, after calling the visitor for three ids.
CycleSafeVisitationWitness ==
    /\ tpc = "traverseDeepFirstReturned"
    /\ sandbox.root \in TransitiveDeps(sandbox, sandbox.root)
    /\ Len(visited) = 3

\* C6 -- Order law for findlib: the `path` of findlib.conf and of
\* findlib.conf.in lists finalInstall(d)/lib for the transitive dependencies
\* d of the build in DFS post-order (deduplicated by id), then
\* install(b)/lib as the last entry.
PostOrderFindLibPath(cfg, sb, build) ==
    JoinWith(
        MapSeq(SelectSeq(traverseDeepFirst(sb, build), LAMBDA c : c # build),
               LAMBDA dep : getFinalInstallPath(cfg, sb, dep, <<S_LIB>>))
          \o <<getInstallPath(cfg, sb, build, <<S_LIB>>)>>,
        COLON)

FindlibOrderLaw ==
    findlib # <<>> =>
        /\ findlib.conf.path = PostOrderFindLibPath(config, sandbox, findlib.build)
        /\ findlib.confIn.path = PostOrderFindLibPath(buildConfig, sandbox, findlib.build)

-----------------------------------------------------------------------------
(* Properties of normalizePackageName (SpecNormalize)                      *)

\* C10 -- Name-normalization injectivity: two names over [a-z0-9@/._-] with
\* equal normalizations are equal.
NormalizeInjective ==
    names.pc = "done" => (names.nx = names.ny => names.x = names.y)

-----------------------------------------------------------------------------
(* Properties of the ejected Makefile (SpecMake)                           *)

\* the name of the build target of a build, spelled out
BuildTarget(b) == sandbox.name[b] \o <<".", "b", "u", "i", "l", "d">>

IsRule(i, target) == ruleSet[i].type = "rule" /\ ruleSet[i].target = target

\* C17 -- Ejected Makefile ordering: the rule list holds, for every build b
\* reachable from the root, a rule of target <b.name>.build whose
\* prerequisites are esy-store, esy-root and the build target of each direct
\* dependency of b, each of them the target of a rule of the list; and
\* whenever the build rule of b has run in `make build`, esy-store, esy-root
\* and the build rule of every transitive dependency of b have completed
\* (one rule completes per step, so they completed before).
MakefileOrdering ==
    /\ ruleSet # <<>> =>
          \A b \in ReachableBuilds(sandbox, sandbox.root) :
              \E i \in DOMAIN ruleSet :
                  /\ IsRule(i, BuildTarget(b))
                  /\ ruleSet[i].dependencies =
                        <<<<"e", "s", "y", "-", "s", "t", "o", "r", "e">>,
                          <<"e", "s", "y", "-", "r", "o", "o", "t">>>>
                        \o MapSeq(sandbox.dependencies[b], BuildTarget)
                  /\ \A p \in Range(ruleSet[i].dependencies) :
                        \E j \in DOMAIN ruleSet : IsRule(j, p)
    /\ \A b \in ReachableBuilds(sandbox, sandbox.root) :
          BuildTarget(b) \in made =>
              /\ <<"e", "s", "y", "-", "s", "t", "o", "r", "e">> \in made
              /\ <<"e", "s", "y", "-", "r", "o", "o", "t">> \in made
              /\ \A d \in TransitiveDeps(sandbox, b) : BuildTarget(d) \in made

\* C17 witness: `make build` has completed on a graph of three builds in
\* which the last is a dependency of the root and of the root's dependency.
MakefileOrderingWitness ==
    /\ <<"b", "u", "i", "l", "d">> \in made
    /\ BuildTarget(sandbox.root) \in made
    /\ IsDiamond(sandbox)
    /\ Cardinality(ReachableIds(sandbox, sandbox.root)) = 3

\* the items of the rule list that are a define
Defines(rs) == {i \in DOMAIN rs : rs[i].type = "define"}

\* C23 -- Ejected names are unique per build: two builds reachable from the
\* root with different ids get different targets <name>.build, <name>.shell
\* and <name>.clean and different define names shell_env_for__<normalized
\* name>, and no target and no define name is emitted twice in the rule
\* list.
EjectedNamesUnique ==
    ruleSet # <<>> =>
        /\ \A b, c \in ReachableBuilds(sandbox, sandbox.root) :
              sandbox.id[b] # sandbox.id[c] =>
                  /\ \A t \in {N_BUILD, N_SHELL, N_CLEAN} :
                        createBuildRuleName(sandbox, b, t) # createBuildRuleName(sandbox, c, t)
                  /\ shellEnvName(sandbox, b) # shellEnvName(sandbox, c)
        /\ \A i, j \in Rules(ruleSet) : i # j => ruleSet[i].target # ruleSet[j].target
        /\ \A i, j \in Defines(ruleSet) : i # j => ruleSet[i].name # ruleSet[j].name

\* the name lower-cased and without `@`
Stripped(name) == SelectSeq(toLowerCase(name), LAMBDA c : c # "@")

RECURSIVE RunLength(_)
\* the length of the run of `_` a string starts with
RunLength(s) == IF s = <<>> \/ s[1] # "_" THEN 0 ELSE 1 + RunLength(Tail(s))

Underscores(n) == [i \in 1..n |-> "_"]

RECURSIVE NormalizedBy(_, _, _)
\* s with every maximal run of n underscores turned into a run of
\* mul * n + add, and then `/`, `.` and `-` replaced
NormalizedBy(s, mul, add) ==
    IF s = <<>> THEN <<>>
    ELSE IF s[1] = "_"
         THEN LET n == RunLength(s)
              IN Underscores(mul * n + add) \o NormalizedBy(SubSeq(s, n + 1, Len(s)), mul, add)
         ELSE (CASE s[1] = "/" -> <<"_", "_", "s", "l", "a", "s", "h", "_", "_">>
                 [] s[1] = "." -> <<"_", "_", "d", "o", "t", "_", "_">>
                 [] s[1] = "-" -> <<"_">>
                 [] OTHER -> <<s[1]>>)
              \o NormalizedBy(Tail(s), mul, add)

\* C18 -- Underscore rule as claimed: normalizePackageName doubles every
\* maximal run of `_` of the lower-cased, `@`-stripped name (n underscores
\* become 2n), before `/`, `.` and `-` are replaced by `__slash__`,
\* `__dot__` and `_`.
UnderscoreRunsDoubled ==
    names.pc = "done" =>
        /\ names.nx = NormalizedBy(Stripped(names.x), 2, 0)
        /\ names.ny = NormalizedBy(Stripped(names.y), 2, 0)

\* C18, amended -- Underscore rule: normalizePackageName adds two
\* underscores to every maximal run of `_` of the lower-cased, `@`-stripped
\* name (n underscores become n + 2), before `/`, `.` and `-` are replaced
\* by `__slash__`, `__dot__` and `_`.
UnderscoreRunsGrowByTwo ==
    names.pc = "done" =>
        /\ names.nx = NormalizedBy(Stripped(names.x), 1, 2)
        /\ names.ny = NormalizedBy(Stripped(names.y), 1, 2)

\* C18 witness: a run of three underscores has become a run of five, and
\* two runs of one around a `-` have become seven underscores.
UnderscoreRunsWitness ==
    /\ names.pc = "done"
    /\ RunLength(names.x) = 3 /\ names.nx = Underscores(5)
    /\ names.y = <<"_", "-", "_">> /\ names.ny = Underscores(7)

-----------------------------------------------------------------------------
(* Properties of the rewrite task (SpecRewrite)                            *)

\* C7 -- Rewrite fidelity: after the rewrite task of step 8, the file does
\* not contain install(b), however many occurrences it had; the bytes
\* outside the occurrences are unchanged.
RewriteFidelity ==
    rewr.pc = "done" =>
        LET origPath == getInstallPath(config, sandbox, 1, <<>>)
            occ == Occurrences(rewr.content, origPath)
        IN /\ indexOf(rewr.written, origPath) = -1
           /\ Len(rewr.written) = Len(rewr.content)
           /\ \A i \in 1..Len(rewr.content) :
                 (\A o \in occ : i <= o \/ i > o + Len(origPath)) =>
                     rewr.written[i] = rewr.content[i]

\* C22 -- Equal length of the staging and the final path: install(b) and
\* finalInstall(b) have the same length for a persistent and for a
\* non-persistent build under every store and sandbox path, so the overwrite
\* of step 8 at the offset where install(b) was found replaces exactly the
\* bytes of that occurrence by finalInstall(b) and keeps the file length.
InstallPathsSameLength ==
    LET origPath == getInstallPath(config, sandbox, 1, <<>>)
        destPath == getFinalInstallPath(config, sandbox, 1, <<>>)
        offset == indexOf(rewr.content, origPath)
    IN /\ Len(origPath) = Len(destPath)
       /\ rewr.pc = "done" =>
             /\ Len(rewr.written) = Len(rewr.content)
             /\ offset > -1 =>
                   /\ SubSeq(rewr.written, offset + 1, offset + Len(origPath)) = destPath
                   /\ \A i \in 1..Len(rewr.content) :
                         (i <= offset \/ i > offset + Len(origPath)) =>
                             rewr.written[i] = rewr.content[i]
             /\ offset = -1 => rewr.written = rewr.content

\* C22 witness: the task has overwritten an occurrence that is followed by
\* other text, for a non-persistent build under a sandbox path and a store
\* path of different lengths.
InstallPathsSameLengthWitness ==
    LET origPath == getInstallPath(config, sandbox, 1, <<>>)
        offset == indexOf(rewr.content, origPath)
    IN /\ rewr.pc = "done"
       /\ ~sandbox.shouldBePersisted[1]
       /\ Len(config.storePath) # Len(config.sandboxPath)
       /\ offset > -1
       /\ offset + Len(origPath) < Len(rewr.content)
       /\ rewr.written # rewr.content

-----------------------------------------------------------------------------
(* Properties of the hash helpers (SpecHash)                               *)

\* C24 -- Hash-file round trip: a doesHashExist run prints `true` when the
\* hash file of its folder exists and `false` when it does not; a getOldHash
\* run on a folder whose hash file saveHash has written prints exactly the
\* content written last; and a getOldHash run fails with 'Hash file not
\* available' only when the file is absent.
HashRoundTrip ==
    \A k \in 1..Len(hashLog) :
        LET e == hashLog[k] IN
        /\ e.cmd = "doesHashExist" =>
              e.stdout = IF e.found.exists THEN << <<"t", "r", "u", "e">> >>
                         ELSE << <<"f", "a", "l", "s", "e">> >>
        /\ (e.cmd = "getOldHash" /\ e.found.exists) =>
              /\ e.error = "none"
              /\ e.stdout = <<e.found.content>>
        /\ (e.cmd = "getOldHash" /\ e.error = "Hash file not available") =>
              ~e.found.exists

====
